---- MODULE Spec2Model ----
(***************************************************************************)
(* Model of handlers/backend_handler.go: the rewrite hook installed by      *)
(* NewBackendHandler, populateViaHeader, backendTransport.RoundTrip and     *)
(* newErrorResponse.  One proxied request at a time is followed from the    *)
(* rewrite hook through the wrapped round trip, the error classification,   *)
(* the deferred log call and the return to the reverse proxy.               *)
(*                                                                         *)
(* Strings that the code only concatenates are TLA+ strings.  Error texts   *)
(* that the code compares and pattern-matches are sequences of fragments,   *)
(* so that equality and the regular expression are computed, not assumed.   *)
(***************************************************************************)
EXTENDS Integers, Sequences, FiniteSets, TLC

VARIABLES pc, inbound, req, wrappedResp, wrappedErr, resp, err,
          logDetails, deferred, logCalls, dispatches, trace, caller

vars == <<pc, inbound, req, wrappedResp, wrappedErr, resp, err,
          logDetails, deferred, logCalls, dispatches, trace, caller>>

(***************************** bounds **************************************)
\* longest list of prior Via values on a header
MaxVia == 2
\* longest run of digits in a content-length error text
MaxDigits == 2

(***************************** values **************************************)
\* a nil *http.Response
NilResponse == [nil |-> TRUE]
\* a nil error
NilError == [nil |-> TRUE]
\* a nil io.ReadCloser
NilBody == [nil |-> TRUE]
\* no request / no detail map yet
NoRequest == [nil |-> TRUE]
NoDetails == [nil |-> TRUE]

\* the backendUrl the handler was constructed with
BackendUrl == [Scheme |-> "http", Host |-> "backend.internal:3000"]

\* http.Header: a map from key to list of values; h[key] and the "ok" of
\* the two-valued map read
HeaderHas(h, key) == key \in DOMAIN h
\* http.Header.Set: replaces the value list by the single value
HeaderSet(h, key, value) ==
    [k \in DOMAIN h \cup {key} |-> IF k = key THEN <<value>> ELSE h[k]]
\* http.Header.Get: first value, "" when there is none
HeaderGet(h, key) ==
    IF key \in DOMAIN h /\ Len(h[key]) > 0 THEN h[key][1] ELSE ""

\* strings.Join(a, sep)
RECURSIVE Join(_, _)
Join(a, sep) ==
    IF Len(a) = 0 THEN ""
    ELSE IF Len(a) = 1 THEN a[1]
    ELSE a[1] \o sep \o Join(Tail(a), sep)

\* fmt.Sprintf("%d.%d", major, minor)
HttpVersion(proto) == ToString(proto[1]) \o "." \o ToString(proto[2])

(************************ populateViaHeader ********************************)
populateViaHeader(header, httpVersion) ==
    LET via == httpVersion \o " router"
    IN  IF HeaderHas(header, "Via")
        THEN HeaderSet(header, "Via", Join(header["Via"], ", ") \o ", " \o via)
        ELSE HeaderSet(header, "Via", via)

(************************ the rewrite hook *********************************)
\* the director of httputil.NewSingleHostReverseProxy: points the request
\* URL at the target, leaves Host and the headers alone
defaultDirector(r) ==
    [r EXCEPT !.URL = [Scheme |-> BackendUrl.Scheme, Host |-> BackendUrl.Host]]

\* mutant: the Host assignment is missing
Director_keepHost(r) ==
    LET r1 == defaultDirector(r)
        r3 == IF ~HeaderHas(r1.Header, "User-Agent")
              THEN [r1 EXCEPT !.Header = HeaderSet(r1.Header, "User-Agent", "")]
              ELSE r1
    IN  [r3 EXCEPT !.Header = populateViaHeader(r3.Header, HttpVersion(r3.Proto))]

\* mutant: the blank User-Agent is not installed
Director_noUserAgent(r) ==
    LET r1 == defaultDirector(r)
        r2 == [r1 EXCEPT !.Host = BackendUrl.Host]
    IN  [r2 EXCEPT !.Header = populateViaHeader(r2.Header, HttpVersion(r2.Proto))]

\* proxy.Director as replaced by NewBackendHandler
Director(r) ==
    LET r1 == defaultDirector(r)
        r2 == [r1 EXCEPT !.Host = BackendUrl.Host]
        r3 == IF ~HeaderHas(r2.Header, "User-Agent")
              THEN [r2 EXCEPT !.Header = HeaderSet(r2.Header, "User-Agent", "")]
              ELSE r2
    IN  [r3 EXCEPT !.Header = populateViaHeader(r3.Header, HttpVersion(r3.Proto))]

(************************ error values *************************************)
\* fragments of error texts
HeaderTimeoutText == "net/http: timeout awaiting response headers"
ContentLengthText == "http: Request.ContentLength="
BodyLengthText == " with Body length "
OtherText == "lookup backend.internal: no such host"
DigitTexts == {"0", "1", "2", "3", "4", "5", "6", "7", "8", "9"}

\* syscall.Errno values; Errno.Timeout() is true of ETIMEDOUT, and
\* Errno.Error() is the errno's fixed message
Errno(name) ==
    [nil |-> FALSE, type |-> "syscall.Errno", errno |-> name,
     timeout |-> (name = "ETIMEDOUT"),
     text |-> IF name = "ECONNREFUSED" THEN <<"connection refused">>
              ELSE <<"connection timed out">>]
ECONNREFUSED == Errno("ECONNREFUSED")
ETIMEDOUT == Errno("ETIMEDOUT")

\* any other error value: its text, and whether it answers Timeout() with true
OtherError(text, timeout) ==
    [nil |-> FALSE, type |-> "error", errno |-> "", timeout |-> timeout,
     text |-> text]

\* &net.OpError{Op: "dial", Net: "tcp", Err: inner}
OpError(inner) == [nil |-> FALSE, type |-> "*net.OpError", Err |-> inner]

\* the type assertion err.(*net.OpError)
IsOpError(e) == e.type = "*net.OpError"
\* (*net.OpError).Timeout(): the inner error is a timeout
OpErrorTimeout(e) == e.Err.timeout
\* err.Error(); OpError prints its operation and network before the inner text
ErrorText(e) ==
    IF IsOpError(e) THEN <<"dial tcp: ">> \o e.Err.text ELSE e.text

\* invalidContentLengthRegexp.MatchString: an unanchored search for
\* ContentLength= digits+ " with Body length " digits+
MatchesAt(t, i) ==
    /\ t[i] = ContentLengthText
    /\ \E j \in (i + 1)..Len(t) :
          /\ \A k \in (i + 1)..j : t[k] \in DigitTexts
          /\ j + 2 <= Len(t)
          /\ t[j + 1] = BodyLengthText
          /\ t[j + 2] \in DigitTexts
invalidContentLengthRegexp(t) == \E i \in 1..Len(t) : MatchesAt(t, i)

(************************ newErrorResponse *********************************)
\* ioutil.NopCloser(strings.NewReader(data))
NopCloser(data) == [nil |-> FALSE, kind |-> "NopCloser", data |-> data]
\* ioutil.ReadAll(body): the bytes the body yields
ReadAll(body) == body.data
\* body.Close(): NopCloser's Close returns nil
Close(body) ==
    IF body.kind = "NopCloser" THEN NilError
    ELSE OtherError(<<"close failed">>, FALSE)
\* a header map with no entries (the zero value of the Header field)
NoHeader == [k \in {} |-> <<>>]

\* mutant: the body is left unset
newErrorResponse_noBody(status) ==
    [nil |-> FALSE, StatusCode |-> status, Proto |-> <<0, 0>>,
     Header |-> NoHeader, Body |-> NilBody]

newErrorResponse(status) ==
    [nil |-> FALSE, StatusCode |-> status, Proto |-> <<0, 0>>,
     Header |-> NoHeader, Body |-> NopCloser("")]

(************************ RoundTrip, failure branch ************************)
Outcome(ld, status) ==
    [logDetails |-> [ld EXCEPT !.status = status],
     resp |-> newErrorResponse(status), err |-> NilError]

\* mutant: the catch-all hands the error back to the caller
RoundTripOnError_propagate(e, ld) ==
    IF IsOpError(e) /\ OpErrorTimeout(e) THEN Outcome(ld, 504)
    ELSE IF IsOpError(e) /\ e.Err = ECONNREFUSED THEN Outcome(ld, 502)
    ELSE IF ErrorText(e) = <<HeaderTimeoutText>> THEN Outcome(ld, 504)
    ELSE IF invalidContentLengthRegexp(ErrorText(e)) THEN Outcome(ld, 400)
    ELSE [logDetails |-> ld, resp |-> NilResponse, err |-> e]

\* mutant: the message rules are tried before the *net.OpError rules
RoundTripOnError_textFirst(e, ld) ==
    IF ErrorText(e) = <<HeaderTimeoutText>> THEN Outcome(ld, 504)
    ELSE IF invalidContentLengthRegexp(ErrorText(e)) THEN Outcome(ld, 400)
    ELSE IF IsOpError(e) /\ OpErrorTimeout(e) THEN Outcome(ld, 504)
    ELSE IF IsOpError(e) /\ e.Err = ECONNREFUSED THEN Outcome(ld, 502)
    ELSE [logDetails |-> ld, resp |-> newErrorResponse(500), err |-> NilError]

\* mutant: the branches forget to update logDetails["status"]
RoundTripOnError_staleStatus(e, ld) ==
    IF IsOpError(e) /\ OpErrorTimeout(e) THEN [Outcome(ld, 504) EXCEPT !.logDetails = ld]
    ELSE IF IsOpError(e) /\ e.Err = ECONNREFUSED THEN [Outcome(ld, 502) EXCEPT !.logDetails = ld]
    ELSE IF ErrorText(e) = <<HeaderTimeoutText>> THEN [Outcome(ld, 504) EXCEPT !.logDetails = ld]
    ELSE IF invalidContentLengthRegexp(ErrorText(e)) THEN [Outcome(ld, 400) EXCEPT !.logDetails = ld]
    ELSE [logDetails |-> ld, resp |-> newErrorResponse(500), err |-> NilError]

\* lines 82-100: the new detail map and the values the return statement
\* stores in the named results
RoundTripOnError(e, ld) ==
    IF IsOpError(e) /\ OpErrorTimeout(e) THEN Outcome(ld, 504)
    ELSE IF IsOpError(e) /\ e.Err = ECONNREFUSED THEN Outcome(ld, 502)
    ELSE IF ErrorText(e) = <<HeaderTimeoutText>> THEN Outcome(ld, 504)
    ELSE IF invalidContentLengthRegexp(ErrorText(e)) THEN Outcome(ld, 400)
    ELSE [logDetails |-> ld, resp |-> newErrorResponse(500), err |-> NilError]

(************************ inputs *******************************************)
Protos == {<<1, 0>>, <<1, 1>>}
ViaValues == {"1.0 fred", "1.1 cache"}
\* lists of prior Via values, from min to MaxVia long
ViaLists(min) == UNION {[1..n -> ViaValues] : n \in min..MaxVia}

\* a header with at most a User-Agent and a Via entry; ua and via are sets
\* holding the value list of the entry, or empty when the key is absent
MkHeader(ua, via) ==
    [k \in (IF ua = {} THEN {} ELSE {"User-Agent"})
           \cup (IF via = {} THEN {} ELSE {"Via"}) |->
        IF k = "User-Agent" THEN CHOOSE v \in ua : TRUE
        ELSE CHOOSE v \in via : TRUE]

\* requests handed to the handler: any Host, any header map a Go caller can
\* build, a key with an empty value list included
InboundRequests ==
    {[nil |-> FALSE, Host |-> h, URL |-> [Scheme |-> "", Host |-> ""],
      Proto |-> p, Header |-> MkHeader(ua, via)] :
        h \in {"www.example.org", BackendUrl.Host}, p \in Protos,
        ua \in {{}, {<<>>}, {<<"curl/7.30">>}},
        via \in {{}} \cup {{l} : l \in ViaLists(0)}}

\* responses the wrapped transport parses off the wire: a header that is
\* present has at least one value
BackendResponses ==
    {[nil |-> FALSE, StatusCode |-> s, Proto |-> p,
      Header |-> MkHeader({}, via),
      Body |-> [nil |-> FALSE, kind |-> "backend", data |-> "payload"]] :
        s \in {200, 503}, p \in Protos,
        via \in {{}} \cup {{l} : l \in ViaLists(1)}}

Digits(n) == [i \in 1..n |-> "7"]
ErrorTexts ==
    LET cores == {<<HeaderTimeoutText>>, <<OtherText>>, <<>>}
                 \cup {<<ContentLengthText>> \o Digits(m) \o <<BodyLengthText>> \o Digits(n) :
                          m \in 0..MaxDigits, n \in 0..MaxDigits}
        pads == {<<>>, <<OtherText>>}
    IN  {a \o c \o b : a \in pads, c \in cores, b \in pads}

\* the errors the wrapped round trip can return
Errors ==
    LET inner == {ECONNREFUSED, ETIMEDOUT}
                 \cup {OtherError(t, tm) : t \in ErrorTexts, tm \in BOOLEAN}
    IN  inner \cup {OpError(i) : i \in inner}

(************************ the state machine ********************************)
Init ==
    /\ pc = "idle"
    /\ inbound = NoRequest
    /\ req = NoRequest
    /\ wrappedResp = NilResponse
    /\ wrappedErr = NilError
    /\ resp = NilResponse
    /\ err = NilError
    /\ logDetails = NoDetails
    /\ deferred = <<>>
    /\ logCalls = <<>>
    /\ dispatches = 0
    /\ trace = <<>>
    /\ caller = [nil |-> TRUE]

\* ReverseProxy.ServeHTTP takes a request and runs the rewrite hook on it
Rewrite ==
    /\ pc = "idle"
    /\ \E r \in InboundRequests :
          /\ inbound' = r
          /\ req' = Director(r)
    /\ pc' = "transport"
    /\ wrappedResp' = NilResponse
    /\ wrappedErr' = NilError
    /\ resp' = NilResponse
    /\ err' = NilError
    /\ logDetails' = NoDetails
    /\ deferred' = <<>>
    /\ logCalls' = <<>>
    /\ dispatches' = 0
    /\ trace' = <<>>
    /\ caller' = [nil |-> TRUE]

\* line 73, the wrapped round trip answers with a response
DispatchResponse ==
    /\ pc = "transport"
    /\ \E r \in BackendResponses :
          /\ wrappedResp' = r
          /\ resp' = r
    /\ wrappedErr' = NilError
    /\ err' = NilError
    /\ dispatches' = dispatches + 1
    /\ trace' = Append(trace, "dispatch")
    /\ pc' = "dispatched"
    /\ UNCHANGED <<inbound, req, logDetails, deferred, logCalls, caller>>

\* line 73, the wrapped round trip fails
DispatchError ==
    /\ pc = "transport"
    /\ \E e \in Errors :
          /\ wrappedErr' = e
          /\ err' = e
    /\ wrappedResp' = NilResponse
    /\ resp' = NilResponse
    /\ dispatches' = dispatches + 1
    /\ trace' = Append(trace, "dispatch")
    /\ pc' = "dispatched"
    /\ UNCHANGED <<inbound, req, logDetails, deferred, logCalls, caller>>

\* lines 74-75 and 102: stamp the backend's response
StampVia ==
    /\ pc = "dispatched"
    /\ err = NilError
    /\ resp' = [resp EXCEPT !.Header = populateViaHeader(resp.Header, HttpVersion(resp.Proto))]
    /\ pc' = "returning"
    /\ UNCHANGED <<inbound, req, wrappedResp, wrappedErr, err, logDetails,
                   deferred, logCalls, dispatches, trace, caller>>

\* the logging collaborator: records the call; its sink may or may not take
\* the entry, and the call hands nothing back to its caller
LogFromBackendRequest(calls, fields, r, sinkOk) ==
    Append(calls, [fields |-> fields, req |-> r, emitted |-> sinkOk])

\* mutant: the logger is called at once instead of deferred
BeginFailure_eager ==
    /\ pc = "dispatched"
    /\ err # NilError
    /\ logDetails' = [error |-> ErrorText(err), status |-> 500]
    /\ logCalls' = LogFromBackendRequest(logCalls, logDetails', req, TRUE)
    /\ trace' = Append(trace, "log")
    /\ pc' = "classify"
    /\ UNCHANGED <<inbound, req, wrappedResp, wrappedErr, resp, err,
                   deferred, dispatches, caller>>

\* lines 78-79: the detail map with the placeholder status, and the defer
BeginFailure ==
    /\ pc = "dispatched"
    /\ err # NilError
    /\ logDetails' = [error |-> ErrorText(err), status |-> 500]
    /\ deferred' = <<"LogFromBackendRequest">> \o deferred
    /\ pc' = "classify"
    /\ UNCHANGED <<inbound, req, wrappedResp, wrappedErr, resp, err,
                   logCalls, dispatches, trace, caller>>

\* mutant: a failed attempt is tried once more
ClassifyError_retry ==
    /\ pc = "classify"
    /\ IF dispatches < 2
       THEN /\ pc' = "transport"
            /\ deferred' = <<>>
            /\ UNCHANGED <<logDetails, resp, err, trace>>
       ELSE LET out == RoundTripOnError(err, logDetails)
            IN  /\ logDetails' = out.logDetails
                /\ resp' = out.resp
                /\ err' = out.err
                /\ trace' = Append(trace, "classify")
                /\ pc' = "returning"
                /\ UNCHANGED deferred
    /\ UNCHANGED <<inbound, req, wrappedResp, wrappedErr, logCalls, dispatches, caller>>

\* lines 82-100: classify, update the detail map, set the results
ClassifyError ==
    /\ pc = "classify"
    /\ LET out == RoundTripOnError(err, logDetails)
       IN  /\ logDetails' = out.logDetails
           /\ resp' = out.resp
           /\ err' = out.err
    /\ trace' = Append(trace, "classify")
    /\ pc' = "returning"
    /\ UNCHANGED <<inbound, req, wrappedResp, wrappedErr, deferred, logCalls,
                   dispatches, caller>>

\* mutant: a failing log sink replaces the results
RunDeferred_sinkDecides ==
    /\ pc = "returning"
    /\ deferred # <<>>
    /\ \E sinkOk \in BOOLEAN :
          /\ logCalls' = LogFromBackendRequest(logCalls, logDetails, req, sinkOk)
          /\ resp' = IF sinkOk THEN resp ELSE NilResponse
          /\ err' = IF sinkOk THEN err ELSE OtherError(<<"log sink failed">>, FALSE)
    /\ deferred' = Tail(deferred)
    /\ trace' = Append(trace, "log")
    /\ UNCHANGED <<pc, inbound, req, wrappedResp, wrappedErr, logDetails,
                   dispatches, caller>>

\* the deferred bt.logger.LogFromBackendRequest(logDetails, req) runs as the
\* function returns, reading the detail map as it is then
RunDeferred ==
    /\ pc = "returning"
    /\ deferred # <<>>
    /\ \E sinkOk \in BOOLEAN :
          logCalls' = LogFromBackendRequest(logCalls, logDetails, req, sinkOk)
    /\ deferred' = Tail(deferred)
    /\ trace' = Append(trace, "log")
    /\ UNCHANGED <<pc, inbound, req, wrappedResp, wrappedErr, resp, err,
                   logDetails, dispatches, caller>>

\* the named results reach the caller of RoundTrip
Return ==
    /\ pc = "returning"
    /\ deferred = <<>>
    /\ caller' = [nil |-> FALSE, resp |-> resp, err |-> err]
    /\ trace' = Append(trace, "return")
    /\ pc' = "returned"
    /\ UNCHANGED <<inbound, req, wrappedResp, wrappedErr, resp, err,
                   logDetails, deferred, logCalls, dispatches>>

\* ReverseProxy.ServeHTTP copies the result to the client and returns; the
\* locals of the call are gone and the handler takes the next request
Finish ==
    /\ pc = "returned"
    /\ pc' = "idle"
    /\ inbound' = NoRequest
    /\ req' = NoRequest
    /\ wrappedResp' = NilResponse
    /\ wrappedErr' = NilError
    /\ resp' = NilResponse
    /\ err' = NilError
    /\ logDetails' = NoDetails
    /\ deferred' = <<>>
    /\ logCalls' = <<>>
    /\ dispatches' = 0
    /\ trace' = <<>>
    /\ caller' = [nil |-> TRUE]

Next ==
    \/ Rewrite
    \/ DispatchResponse
    \/ DispatchError
    \/ StampVia
    \/ BeginFailure
    \/ ClassifyError
    \/ RunDeferred
    \/ Return
    \/ Finish

Spec == Init /\ [][Next]_vars

\* the call has returned after the wrapped round trip failed / succeeded
FailedCallReturned == pc = "returned" /\ wrappedErr # NilError
SucceededCallReturned == pc = "returned" /\ wrappedErr = NilError

(************************ the classification rules *************************)
\* the rules of the error taxonomy, each on its own
TimeoutRule(e) == IsOpError(e) /\ OpErrorTimeout(e)
RefusedRule(e) == IsOpError(e) /\ e.Err = ECONNREFUSED
HeaderWaitRule(e) == ErrorText(e) = <<HeaderTimeoutText>>
ContentLengthRule(e) == invalidContentLengthRegexp(ErrorText(e))
SynthesizedStatuses == {400, 500, 502, 504}

(************************ claims *******************************************)
\* C1: every RoundTrip call hands its caller a non-nil response and a nil
\* error: the backend's response when the wrapped round trip succeeded, a
\* synthesized error response when it failed, whatever the error was.
C1_ResponseAndNilError ==
    pc = "returned" =>
        /\ caller.resp # NilResponse
        /\ caller.err = NilError
        /\ IF wrappedErr = NilError
           THEN /\ caller.resp.StatusCode = wrappedResp.StatusCode
                /\ caller.resp.Body = wrappedResp.Body
           ELSE \E s \in SynthesizedStatuses : caller.resp = newErrorResponse(s)
C1_Witness ==
    /\ FailedCallReturned
    /\ wrappedErr.type = "error"
    /\ wrappedErr.text = <<OtherText>>
    /\ caller.resp.StatusCode = 500
    /\ caller.err = NilError

\* C2: on failure the status of the returned response is decided by the
\* first rule that matches, in the order timeout (504), connection refused
\* (502), header-wait message (504), content-length pattern (400), else 500.
C2_FirstMatchingRule ==
    FailedCallReturned =>
        LET e == wrappedErr
            status == caller.resp.StatusCode
        IN  /\ TimeoutRule(e) => status = 504
            /\ ~TimeoutRule(e) /\ RefusedRule(e) => status = 502
            /\ ~TimeoutRule(e) /\ ~RefusedRule(e) /\ HeaderWaitRule(e) => status = 504
            /\ ~TimeoutRule(e) /\ ~RefusedRule(e) /\ ~HeaderWaitRule(e)
                  /\ ContentLengthRule(e) => status = 400
            /\ ~TimeoutRule(e) /\ ~RefusedRule(e) /\ ~HeaderWaitRule(e)
                  /\ ~ContentLengthRule(e) => status = 500
C2_Witness ==
    /\ FailedCallReturned
    /\ TimeoutRule(wrappedErr)
    /\ ContentLengthRule(wrappedErr)
    /\ caller.resp.StatusCode = 504

\* C3: LogFromBackendRequest is called once by a failed call and never by a
\* successful one; the logged status is the status of the returned response
\* and the logged error is the text of the original error.
C3_OneLogWithFinalStatus ==
    /\ Len(logCalls) <= 1
    /\ wrappedErr = NilError => logCalls = <<>>
    /\ FailedCallReturned =>
          /\ Len(logCalls) = 1
          /\ logCalls[1].fields.status = caller.resp.StatusCode
          /\ logCalls[1].fields.error = ErrorText(wrappedErr)
          /\ logCalls[1].req = req
C3_Witness ==
    /\ FailedCallReturned
    /\ Len(logCalls) = 1
    /\ logCalls[1].fields.status = 502
    /\ caller.resp.StatusCode = 502

\* the Via value C4 states: "v router" when there were no prior values, the
\* prior values joined by ", " and then ", v router" otherwise
ClaimedVia(header, v) ==
    IF ~HeaderHas(header, "Via") \/ Len(header["Via"]) = 0
    THEN v \o " router"
    ELSE Join(header["Via"], ", ") \o ", " \o v \o " router"

\* C4: populateViaHeader leaves exactly the claimed Via value, on the
\* outgoing request after the rewrite hook and on the backend's response
\* after a successful round trip.
C4_ViaAsClaimed ==
    /\ pc = "transport" =>
          req.Header["Via"] = <<ClaimedVia(inbound.Header, HttpVersion(inbound.Proto))>>
    /\ SucceededCallReturned =>
          caller.resp.Header["Via"] =
              <<ClaimedVia(wrappedResp.Header, HttpVersion(wrappedResp.Proto))>>

\* C4, the cases the code agrees with: the Via key is absent, or it holds at
\* least one value.
C4_ViaWhenAbsentOrValued ==
    /\ pc = "transport"
          /\ (HeaderHas(inbound.Header, "Via") => Len(inbound.Header["Via"]) > 0) =>
          req.Header["Via"] = <<ClaimedVia(inbound.Header, HttpVersion(inbound.Proto))>>
    /\ SucceededCallReturned =>
          caller.resp.Header["Via"] =
              <<ClaimedVia(wrappedResp.Header, HttpVersion(wrappedResp.Proto))>>

\* C5: after the rewrite hook the request's Host is the backend URL's host,
\* whatever the Host of the inbound request was.
C5_HostIsBackendHost ==
    pc # "idle" => req.Host = BackendUrl.Host
C5_Witness ==
    /\ pc = "transport"
    /\ inbound.Host = "www.example.org"
    /\ req.Host = "backend.internal:3000"

\* C6: a request without a User-Agent header leaves the rewrite hook with a
\* User-Agent header that is present and empty.
C6_BlankUserAgent ==
    pc # "idle" /\ ~HeaderHas(inbound.Header, "User-Agent") =>
        /\ HeaderHas(req.Header, "User-Agent")
        /\ req.Header["User-Agent"] = <<"">>
        /\ HeaderGet(req.Header, "User-Agent") = ""
C6_Witness ==
    /\ pc = "transport"
    /\ ~HeaderHas(inbound.Header, "User-Agent")
    /\ req.Header["User-Agent"] = <<"">>

\* C7: a response built by newErrorResponse carries the status it was given,
\* a non-nil body that reads as zero bytes and closes without error, and no
\* headers, so no Via header either.
C7_SynthesizedResponseShape ==
    /\ \A s \in SynthesizedStatuses \cup {0, 200, 418} :
          newErrorResponse(s).StatusCode = s
    /\ FailedCallReturned =>
          /\ caller.resp.Body # NilBody
          /\ ReadAll(caller.resp.Body) = ""
          /\ Close(caller.resp.Body) = NilError
          /\ DOMAIN caller.resp.Header = {}
          /\ ~HeaderHas(caller.resp.Header, "Via")
          /\ caller.resp.StatusCode = logDetails.status
C7_Witness ==
    /\ FailedCallReturned
    /\ caller.resp.StatusCode = 504
    /\ ReadAll(caller.resp.Body) = ""
    /\ DOMAIN caller.resp.Header = {}

\* C8: a RoundTrip call invokes the wrapped round trip once; after a failure
\* it returns the synthesized response without another attempt.
C8_OneDispatchPerCall ==
    /\ dispatches <= 1
    /\ pc = "returned" => dispatches = 1
    /\ Len(SelectSeq(trace, LAMBDA ev : ev = "dispatch")) = dispatches
C8_Witness ==
    /\ FailedCallReturned
    /\ dispatches = 1
    /\ caller.resp.StatusCode = 500
    /\ wrappedErr = ECONNREFUSED

\* C9: when the log emission fails, the failed call still returns the
\* synthesized response with the classified status and a nil error.
C9_LogFailureDoesNotChangeResult ==
    FailedCallReturned /\ Len(logCalls) > 0 /\ ~logCalls[Len(logCalls)].emitted =>
        /\ caller.err = NilError
        /\ caller.resp = newErrorResponse(logDetails.status)
        /\ TimeoutRule(wrappedErr) => caller.resp.StatusCode = 504
C9_Witness ==
    /\ FailedCallReturned
    /\ Len(logCalls) = 1
    /\ ~logCalls[1].emitted
    /\ caller.resp.StatusCode = 504
    /\ caller.err = NilError

\* C10: a failed call runs dispatch, classify, log, return in that order: the
\* log call comes after the status is final and before the return, on every
\* classification branch.
C10_StepOrder ==
    wrappedErr # NilError =>
        /\ trace = SubSeq(<<"dispatch", "classify", "log", "return">>, 1, Len(trace))
        /\ pc = "returned" => Len(trace) = 4
        /\ \A i \in 1..Len(logCalls) :
              logCalls[i].fields.status = resp.StatusCode
C10_Witness ==
    /\ FailedCallReturned
    /\ trace = <<"dispatch", "classify", "log", "return">>
    /\ caller.resp.StatusCode = 400

====
